---------------------------- MODULE Spec2Model ----------------------------
(***************************************************************************)
(* Model of the decision engine and life cycle of the drone agent:         *)
(*   src/agent/decision_maker.py   DecisionMaker                           *)
(*   src/agent/core.py             DroneIntelligentAgent                   *)
(*   src/tools/slom.py             SlomTool.check_emergency                *)
(*                                                                         *)
(* Distances are compared through their squares (d > 2.0 iff d*d > 4), so  *)
(* that integer coordinates give exact results.                            *)
(***************************************************************************)
EXTENDS Integers, Sequences, FiniteSets, TLC

(***************************************************************************)
(* Bounds of the model.                                                    *)
(***************************************************************************)
MaxExtraRules == 1      \* calls of update_rules explored
MaxSubstitutions == 1   \* rules whose action the sub-agent's advice has changed
MaxWaypoints == 2       \* longest mission run by the mission loop
MaxMissions == 1        \* calls of run_mission explored
MaxObstacles == 2       \* obstacles in the list of a direct call of _handle_obstacles
MaxRoute == 3           \* waypoints in the list of a direct call of _navigate_mission

(***************************************************************************)
(* Values.                                                                 *)
(***************************************************************************)
\* A telemetry reading that is not a number (None, a string): every
\* comparison with it raises TypeError.
Bad == 0 - 999999
\* A key that is absent from a dict.
Missing == 0 - 999998

NoDecision == [command |-> "none", priority |-> "none", reason |-> "none",
               params |-> [kind |-> "none"]]
NoParams == [kind |-> "none"]
\* The marker of a raised exception, where a value is expected.
Raise == [command |-> "raise", priority |-> "none", reason |-> "none",
          params |-> [kind |-> "none"]]

Decision(c, p, r) == [command |-> c, priority |-> p, reason |-> r, params |-> NoParams]

(***************************************************************************)
(* DecisionMaker._init_safety_rules: the built-in rules, in list order.    *)
(* A condition is a tag, a telemetry field and a threshold.                *)
(***************************************************************************)
Rule(n, k, f, t, c, r, p, prio) ==
    [name |-> n, kind |-> k, field |-> f, thr |-> t,
     action |-> Decision(c, p, r), priority |-> prio]

init_safety_rules ==
    << Rule("low_battery", "lt", "battery", 20, "RTL", "low battery", "critical", 100),
       Rule("critical_battery", "lt", "battery", 10, "LAND", "critical battery", "critical", 200),
       Rule("signal_lost", "lt", "signal_strength", 20, "RTL", "signal lost", "high", 90),
       Rule("high_wind", "gt", "wind_speed", 15, "LAND", "high wind", "high", 80),
       Rule("obstacle_detected", "lt", "obstacle_distance", 5, "HOVER", "obstacle detected", "high", 85) >>

\* telemetry.get(field, default): the defaults of the built-in conditions.
FieldDefault(f) == IF f = "wind_speed" THEN 0 ELSE 100

TelemetryGet(telemetry, f) ==
    IF telemetry[f] = Missing THEN FieldDefault(f) ELSE telemetry[f]

\* rule["condition"](telemetry) raises
ConditionRaises(rule, telemetry) ==
    \/ rule.kind = "raises"
    \/ rule.kind \in {"lt", "gt"} /\ TelemetryGet(telemetry, rule.field) = Bad

\* rule["condition"](telemetry) is true
ConditionHolds(rule, telemetry) ==
    /\ ~ConditionRaises(rule, telemetry)
    /\ CASE rule.kind = "lt" -> TelemetryGet(telemetry, rule.field) < rule.thr
         [] rule.kind = "gt" -> TelemetryGet(telemetry, rule.field) > rule.thr
         [] rule.kind = "always" -> TRUE
         [] OTHER -> FALSE

(***************************************************************************)
(* sorted(rules, key = priority, reverse = True): stable, descending.      *)
(***************************************************************************)
RECURSIVE InsertByPriority(_, _)
InsertByPriority(sorted, rule) ==
    IF sorted = << >> THEN << rule >>
    ELSE IF Head(sorted).priority >= rule.priority
         THEN << Head(sorted) >> \o InsertByPriority(Tail(sorted), rule)
         ELSE << rule >> \o sorted

RECURSIVE SortByInsertion(_, _)
SortByInsertion(rules, acc) ==
    IF rules = << >> THEN acc
    ELSE SortByInsertion(Tail(rules), InsertByPriority(acc, Head(rules)))

UnsortedRules(rules) == rules

SortedRules(rules) == SortByInsertion(rules, << >>)

\* The for loop of _check_safety_rules without its try/except.
RECURSIVE FirstMatchNoCatch(_, _)
FirstMatchNoCatch(rules, telemetry) ==
    IF rules = << >> THEN NoDecision
    ELSE IF ConditionRaises(Head(rules), telemetry) THEN Raise
    ELSE IF ConditionHolds(Head(rules), telemetry) THEN Head(rules).action
         ELSE FirstMatchNoCatch(Tail(rules), telemetry)

RECURSIVE FirstMatch(_, _)
FirstMatch(rules, telemetry) ==
    IF rules = << >> THEN NoDecision
    ELSE IF ConditionHolds(Head(rules), telemetry) THEN Head(rules).action
         ELSE FirstMatch(Tail(rules), telemetry)

\* DecisionMaker._check_safety_rules
check_safety_rules(rules, telemetry) == FirstMatch(SortedRules(rules), telemetry)

(***************************************************************************)
(* DecisionMaker.update_rules: the new rules are appended to the list.     *)
(***************************************************************************)
update_rules(rules, new_rules) == rules \o new_rules

(***************************************************************************)
(* Obstacles.  An obstacle is [distance, x, y, z]; distance may be Missing.*)
(***************************************************************************)
Obstacle(d, x, y, z) == [distance |-> d, x |-> x, y |-> y, z |-> z]

\* o.get("distance", float('inf')): Infinity stands for float('inf').
Infinity == 1000000
ObstacleKey(o) == IF o.distance = Missing THEN Infinity ELSE o.distance

\* min(obstacles, key = ...): the first element with the least key.
MinObstacle(obstacles) ==
    LET i == CHOOSE i \in 1..Len(obstacles) :
                 /\ \A j \in 1..Len(obstacles) : ObstacleKey(obstacles[i]) <= ObstacleKey(obstacles[j])
                 /\ \A j \in 1..(i - 1) : ObstacleKey(obstacles[j]) > ObstacleKey(obstacles[i])
    IN  obstacles[i]

\* DecisionMaker._calculate_avoidance_direction.  The direction
\* (nx, ny, nz) / sqrt(den2) is kept as its numerators and the square of its
\* denominator; the z component is set to 0 by the code.
calculate_avoidance_direction(obstacle) ==
    LET d2 == obstacle.x * obstacle.x + obstacle.y * obstacle.y + obstacle.z * obstacle.z
    IN  IF d2 > 0
        THEN [nx |-> 0 - obstacle.x, ny |-> 0 - obstacle.y, nz |-> 0, den2 |-> d2]
        ELSE [nx |-> 1, ny |-> 0, nz |-> 0, den2 |-> 1]

\* _handle_obstacles with its two limits included in the nearer tier.
handle_obstacles_inclusive(obstacles) ==
    IF obstacles = << >> THEN NoDecision
    ELSE LET closest == MinObstacle(obstacles)
             distance == IF closest.distance = Missing THEN 100 ELSE closest.distance
         IN  IF distance <= 3
             THEN Decision("LAND", "critical", "critically close obstacle")
             ELSE IF distance <= 10
             THEN [command |-> "AVOID", priority |-> "high", reason |-> "obstacle",
                   params |-> [kind |-> "avoid",
                               direction |-> calculate_avoidance_direction(closest),
                               distance |-> 15]]
             ELSE NoDecision

\* DecisionMaker._handle_obstacles; NoDecision stands for None.
handle_obstacles(obstacles) ==
    IF obstacles = << >> THEN NoDecision
    ELSE LET closest == MinObstacle(obstacles)
             distance == IF closest.distance = Missing THEN 100 ELSE closest.distance
         IN  IF distance < 3
             THEN Decision("LAND", "critical", "critically close obstacle")
             ELSE IF distance < 10
             THEN [command |-> "AVOID", priority |-> "high", reason |-> "obstacle",
                   params |-> [kind |-> "avoid",
                               direction |-> calculate_avoidance_direction(closest),
                               distance |-> 15]]
             ELSE NoDecision

(***************************************************************************)
(* Navigation.  A position is [x, y, z]; a waypoint is [x, y, z, speed],   *)
(* speed may be Missing; a waypoint whose x is Bad is malformed and every  *)
(* arithmetic on it raises.                                                *)
(***************************************************************************)
Pos(x, y, z) == [x |-> x, y |-> y, z |-> z]
Waypoint(x, y, z, s) == [x |-> x, y |-> y, z |-> z, speed |-> s]

\* DecisionMaker._calculate_distance, squared.
calculate_distance_sq(p, q) ==
    (p.x - q.x) * (p.x - q.x) + (p.y - q.y) * (p.y - q.y) + (p.z - q.z) * (p.z - q.z)

\* The square of the arrival radius 2.0.
ArrivalRadiusSq == 4

\* DecisionMaker._find_next_waypoint: the index of the waypoint returned,
\* 0 for None, Bad when the scan raises.
\* The scan of _find_next_waypoint with >= 2.0 in place of > 2.0.
RECURSIVE FindFromInclusive(_, _, _)
FindFromInclusive(current_pos, waypoints, i) ==
    IF i > Len(waypoints) THEN 0
    ELSE IF waypoints[i].x = Bad THEN Bad
    ELSE IF calculate_distance_sq(current_pos, waypoints[i]) >= ArrivalRadiusSq THEN i
    ELSE FindFromInclusive(current_pos, waypoints, i + 1)

RECURSIVE FindFrom(_, _, _)
FindFrom(current_pos, waypoints, i) ==
    IF i > Len(waypoints) THEN 0
    ELSE IF waypoints[i].x = Bad THEN Bad
    ELSE IF calculate_distance_sq(current_pos, waypoints[i]) > ArrivalRadiusSq THEN i
    ELSE FindFrom(current_pos, waypoints, i + 1)

\* _find_next_waypoint without its test of the distance: the first waypoint.
find_next_waypoint_first(current_pos, waypoints) ==
    IF waypoints = << >> THEN 0 ELSE IF waypoints[1].x = Bad THEN Bad ELSE 1

find_next_waypoint(current_pos, waypoints) == FindFrom(current_pos, waypoints, 1)

\* DecisionMaker._navigate_mission
navigate_mission(current_pos, waypoints) ==
    IF waypoints = << >> THEN Decision("HOVER", "low", "no route")
    ELSE LET t == find_next_waypoint(current_pos, waypoints)
         IN  IF t = Bad THEN Raise
             ELSE IF t = 0 THEN Decision("RTL", "medium", "mission complete")
             ELSE IF calculate_distance_sq(current_pos, waypoints[t]) < ArrivalRadiusSq
             THEN [command |-> "WAYPOINT_REACHED", priority |-> "medium",
                   reason |-> "waypoint reached",
                   params |-> [kind |-> "waypoint", waypoint |-> waypoints[t]]]
             ELSE [command |-> "GOTO", priority |-> "medium", reason |-> "moving to waypoint",
                   params |-> [kind |-> "goto", x |-> waypoints[t].x, y |-> waypoints[t].y,
                               z |-> waypoints[t].z,
                               speed |-> IF waypoints[t].speed = Missing THEN 5
                                         ELSE waypoints[t].speed]]

(***************************************************************************)
(* A perception is [shape, telemetry, obstacles]: shape "dict" or          *)
(* "not_dict" (every .get on it raises); obstacles is a list of obstacles  *)
(* in a one-element tuple, or << >> when the key "obstacles" is absent.    *)
(***************************************************************************)
HasObstacles(perception) == perception.obstacles # << >>
ObstaclesOf(perception) == perception.obstacles[1]

\* decide_mission with the three tiers in another order: navigation first.
decide_mission_nav_first(rules, perception, waypoints) ==
    navigate_mission(perception.telemetry.position, waypoints)

\* DecisionMaker.decide_mission
decide_mission(rules, perception, waypoints) ==
    LET safety_decision == check_safety_rules(rules, perception.telemetry)
        obstacle_decision == IF HasObstacles(perception)
                             THEN handle_obstacles(ObstaclesOf(perception))
                             ELSE NoDecision
    IN  IF safety_decision # NoDecision THEN safety_decision
        ELSE IF obstacle_decision # NoDecision THEN obstacle_decision
        ELSE navigate_mission(perception.telemetry.position, waypoints)

\* DecisionMaker.decide_free
decide_free(rules, perception) ==
    LET safety_decision == check_safety_rules(rules, perception.telemetry)
    IN  IF safety_decision # NoDecision THEN safety_decision
        ELSE Decision("HOVER", "low", "free flight")

(***************************************************************************)
(* SlomTool.check_emergency with the default thresholds and geofence.      *)
(* The result is [type, action, altitude]; type "none" stands for None and *)
(* type "raise" for a raised exception.                                    *)
(***************************************************************************)
Emergency(t, a) == [type |-> t, action |-> a, altitude |-> Missing]
NoEmergency == Emergency("none", "none")
EmergencyRaise == Emergency("raise", "none")

\* SlomTool._check_geofence: centre (0, 0, 0), radius 500, max_altitude 120.
check_geofence(position) ==
    IF position.x * position.x + position.y * position.y > 500 * 500
    THEN Emergency("geofence_breach", "RTL")
    ELSE IF position.z > 120
    THEN [type |-> "geofence_breach", action |-> "DESCEND", altitude |-> 120 - 10]
    ELSE NoEmergency

slom_check_emergency(telemetry) ==
    LET battery == IF telemetry.battery = Missing THEN 100 ELSE telemetry.battery
        signal == IF telemetry.signal_strength = Missing THEN 100 ELSE telemetry.signal_strength
        obstacle_distance == IF telemetry.obstacle_distance = Missing THEN 100
                             ELSE telemetry.obstacle_distance
        temperature == IF telemetry.temperature = Missing THEN 25 ELSE telemetry.temperature
    IN  IF battery = Bad THEN EmergencyRaise
        ELSE IF battery < 15 THEN Emergency("low_battery", "LAND")
        ELSE IF battery < 25 THEN Emergency("low_battery", "RTL")
        ELSE IF signal = Bad THEN EmergencyRaise
        ELSE IF signal < 20 THEN Emergency("signal_lost", "RTL")
        ELSE IF obstacle_distance = Bad THEN EmergencyRaise
        ELSE IF obstacle_distance < 5 THEN Emergency("obstacle_detected", "HOVER")
        ELSE IF check_geofence(telemetry.position) # NoEmergency
        THEN check_geofence(telemetry.position)
        ELSE IF temperature = Bad THEN EmergencyRaise
        ELSE IF temperature > 60 \/ temperature < 0 - 10
        THEN Emergency("extreme_temperature", "LAND")
        ELSE NoEmergency

\* The reason of the decision that decide builds from a Slom emergency is
\* the emergency itself; it is kept as a tag.
SlomReason(emergency) ==
    CASE emergency.type = "low_battery" -> "slom low_battery"
      [] emergency.type = "signal_lost" -> "slom signal_lost"
      [] emergency.type = "obstacle_detected" -> "slom obstacle_detected"
      [] emergency.type = "geofence_breach" -> "slom geofence_breach"
      [] OTHER -> "slom extreme_temperature"

(***************************************************************************)
(* DroneIntelligentAgent._check_emergency, _handle_emergency,              *)
(* _fallback_decision, _merge_decisions.                                   *)
(***************************************************************************)
\* _check_emergency without its battery test.
check_emergency_signal_only(perception) ==
    LET signal == IF perception.telemetry.signal_strength = Missing THEN 100
                  ELSE perception.telemetry.signal_strength
    IN  IF signal = Bad THEN EmergencyRaise
        ELSE IF signal < 30 THEN Emergency("signal_lost", "none")
        ELSE NoEmergency

check_emergency(perception) ==
    LET battery == IF perception.telemetry.battery = Missing THEN 100
                   ELSE perception.telemetry.battery
        signal == IF perception.telemetry.signal_strength = Missing THEN 100
                  ELSE perception.telemetry.signal_strength
    IN  IF battery = Bad THEN EmergencyRaise
        ELSE IF battery < 20 THEN Emergency("low_battery", "none")
        ELSE IF signal = Bad THEN EmergencyRaise
        ELSE IF signal < 30 THEN Emergency("signal_lost", "none")
        ELSE NoEmergency

handle_emergency(emergency) ==
    IF emergency.type = "low_battery" THEN Decision("RTL", "high", "low battery")
    ELSE IF emergency.type = "signal_lost" THEN Decision("RTL", "high", "signal lost")
    ELSE Decision("LAND", "high", "unknown emergency")

fallback_decision == Decision("HOVER", "medium", "fallback mode")

\* An advice of the sub-agent is [shape, suggest_change, suggested_command,
\* reason]; "" stands for an absent key.
Advice(sh, sc, cmd, r) ==
    [shape |-> sh, suggest_change |-> sc, suggested_command |-> cmd, reason |-> r]

merge_decisions(decision, sub_agent_advice) ==
    IF sub_agent_advice.suggested_command # ""
    THEN [decision EXCEPT !.command = sub_agent_advice.suggested_command,
                          !.reason = IF sub_agent_advice.reason = ""
                                     THEN "sub-agent recommendation"
                                     ELSE sub_agent_advice.reason]
    ELSE decision

(***************************************************************************)
(* The state.                                                              *)
(***************************************************************************)
VARIABLES
    config,            \* [slom, sub_agent]: the Slom tool is loaded, the sub-agent is enabled
    safety_rules,      \* DecisionMaker.safety_rules
    state,             \* DroneIntelligentAgent.state (AgentState)
    current_mission,   \* DroneIntelligentAgent.current_mission: the waypoints, in a tuple
    pcD,               \* decide: "idle", "review" while the sub-agent's answer is
                       \* awaited, "returned" until the caller has taken the result
    perception_data,   \* the argument of the last call of decide
    decision,          \* decide's local variable, while the sub-agent's answer is awaited
    decision_rule,     \* the rule whose action dict `decision` is (0: a fresh dict)
    dm_decision,       \* what the decision maker returned in the last cycle that called it
    sub_agent_advice,  \* the last answer of the sub-agent
    returned,          \* what the last call of decide returned (Raise: it raised)
    rules_arg,         \* the telemetry of a direct call of _check_safety_rules
    rules_result,      \* what that call returned
    obstacles_arg,     \* the list of a direct call of _handle_obstacles, in a tuple
    obstacles_result,  \* what that call returned
    nav_arg,           \* the position and waypoints of a direct call of _navigate_mission
    nav_result,        \* what that call returned
    client,            \* "none", "sim" (sim_client) or "real" (real_drone_client)
    mission_history,   \* DroneIntelligentAgent.mission_history: the reports
    pcM,               \* run_mission: where the mission task is suspended
    mission,           \* run_mission's parameter, in a tuple
    wp_index,          \* the position of the for loop in mission.waypoints
    mission_data,      \* run_mission's local mission_data
    dispatch_log,      \* the commands the mission task has sent to the vehicle:
                       \* the index of the waypoint for a GOTO, 0 for a LAND
    mission_end,       \* how the last run_mission ended: "completed", "failed", "raised"
    estop,             \* emergency_stop was called while the mission was running
    dispatch_failed,   \* a waypoint dispatch of the mission reported success = false
    mission_exc,       \* an exception was raised inside the try of run_mission
    missions_started,  \* the number of calls of run_mission
    pcA,               \* act: "idle", or "send" while send_command is awaited
    act_command,       \* the command of the call of act that is suspended
    act_origin,        \* who called it: "operator" (process_command) or "decision"
                       \* (a caller that executes a decision of the decision maker)
    act_priority,      \* decision.get("priority") of that call ("none": no such key)
    system_check,      \* what _system_check returned in initialize: "none" before it
                       \* has run, "passed" or "failed"
    pcS,               \* shutdown: "idle", "land" while the LAND of _safe_landing is
                       \* sent, "closing" while the tools and the client are closed
    shutdown_from,     \* the state in which the last call of shutdown found the agent
    shutdown_land,     \* that call has dispatched a LAND command
    shutdown_end,      \* how it ended: "none", "returned" or "raised"
    pcN,               \* a loop that flies a route by the navigator's decisions: "idle",
                       \* "running", "done" once RTL is returned
    nav_pos,           \* the position the loop reports to the navigator
    nav_route,         \* the waypoints of its mission
    nav_last,          \* the command of the navigator's last decision ("none" before)
    nav_target,        \* the index in nav_route of the last GOTO target (0 before)
    capacity,          \* ShortTermMemory.capacity
    memory,            \* ShortTermMemory.memory, a deque
    timestamps,        \* ShortTermMemory.timestamps, a deque
    clock,             \* datetime.now(), counted in calls of add
    added,             \* the records added since the last clear, oldest first
    get_all_result     \* << the list the last get_all returned >>, << >> once the
                       \* memory has changed

routeVars == << pcN, nav_pos, nav_route, nav_last, nav_target >>
memoryVars == << capacity, memory, timestamps, clock, added, get_all_result >>
helperVars == << obstacles_arg, obstacles_result, nav_arg, nav_result, routeVars, memoryVars >>
decideVars == << pcD, perception_data, decision, decision_rule, dm_decision,
                 sub_agent_advice, returned, rules_arg, rules_result, helperVars >>
missionVars == << client, mission_history, pcM, mission, wp_index, mission_data,
                  dispatch_log, mission_end, estop, dispatch_failed, mission_exc,
                  missions_started, pcA, act_command, act_origin, act_priority,
                  system_check, pcS, shutdown_from, shutdown_land, shutdown_end >>
vars == << config, safety_rules, state, current_mission, pcD, perception_data, decision,
           decision_rule, dm_decision, sub_agent_advice, returned, rules_arg, rules_result,
           obstacles_arg, obstacles_result, nav_arg, nav_result,
           client, mission_history, pcM, mission, wp_index, mission_data, dispatch_log,
           mission_end, estop, dispatch_failed, mission_exc, missions_started, pcA,
           act_command, act_origin, act_priority, system_check, pcS, shutdown_from,
           shutdown_land, shutdown_end, pcN, nav_pos, nav_route, nav_last, nav_target,
           capacity, memory, timestamps, clock, added, get_all_result >>

NoMission == << >>
HasMission == current_mission # NoMission
MissionWaypoints == current_mission[1].waypoints
MissionParams(w, dc) == [waypoints |-> w, data_collection |-> dc]

(***************************************************************************)
(* The inputs explored.                                                    *)
(***************************************************************************)
BatteryValues == {5, 15, 22, 100, Bad}
SignalValues == {10, 25, 100}
WindValues == {0, 20, Bad}
ObstacleDistanceValues == {3, 100}
PositionValues == {Pos(0, 0, 0), Pos(10, 0, 0)}
ObstacleLists == { << >>,
                   << << Obstacle(2, 2, 0, 0) >> >>,
                   << << Obstacle(50, 50, 0, 0), Obstacle(7, 0, 7, 0) >> >> }

Telemetries ==
    [battery : BatteryValues, signal_strength : SignalValues, wind_speed : WindValues,
     obstacle_distance : ObstacleDistanceValues, temperature : {Missing},
     position : PositionValues]

NoTelemetry == << >>
NoPerception == [shape |-> "none", telemetry |-> << >>, obstacles |-> << >>]
Perceptions ==
    [shape : {"dict"}, telemetry : Telemetries, obstacles : ObstacleLists]
    \cup {[shape |-> "not_dict", telemetry |-> << >>, obstacles |-> << >>]}

NoAdvice == Advice("none", FALSE, "", "")
Advices == { Advice("dict", FALSE, "", ""),
             Advice("dict", TRUE, "", ""),
             Advice("dict", TRUE, "HOVER", ""),
             Advice("dict", TRUE, "GOTO", "cleared by sub-agent"),
             Advice("not_dict", FALSE, "", "") }

\* The waypoints of the missions: 10 m apart on the x axis.
WaypointAt(i) == Waypoint(10 * i, 0, 0, Missing)
MissionOfLen(n) == [i \in 1..n |-> WaypointAt(i)]
MalformedMission == << Waypoint(Bad, 0, 0, Missing) >>
DecideMissions == { NoMission, << MissionParams(MissionOfLen(3), TRUE) >>,
                    << MissionParams(MalformedMission, TRUE) >> }

\* The rules that update_rules may add.
ExtraRules == { Rule("custom_first", "always", "none", 0, "HOVER", "custom rule", "low", 300),
                Rule("custom_last", "lt", "battery", 50, "RTL", "custom rule", "medium", 50) }
ExtraRuleCount == Len(safety_rules) - Len(init_safety_rules)
SubstitutedRules ==
    {i \in 1..Len(safety_rules) :
        safety_rules[i].action.reason \in {"sub-agent recommendation", "cleared by sub-agent"}}

(***************************************************************************)
(* DroneIntelligentAgent.decide.                                           *)
(***************************************************************************)
\* Lines 272-288: the telemetry update, the Slom check and the emergency
\* check.  NoDecision: the cycle goes on to the decision maker.
early_checks(perception) ==
    IF perception.shape = "not_dict" THEN Raise
    ELSE LET slom == IF config.slom THEN slom_check_emergency(perception.telemetry)
                     ELSE NoEmergency
             emergency == check_emergency(perception)
         IN  IF slom = EmergencyRaise THEN Raise
             ELSE IF slom # NoEmergency
             THEN Decision("RTL", "high", SlomReason(slom))
             ELSE IF emergency = EmergencyRaise THEN Raise
             ELSE IF emergency # NoEmergency THEN handle_emergency(emergency)
             ELSE NoDecision

\* Lines 291-294.
maker_decision(perception) ==
    IF HasMission THEN decide_mission(safety_rules, perception, MissionWaypoints)
    ELSE decide_free(safety_rules, perception)

\* The index in safety_rules of the rule whose action the decision maker
\* returned, 0 when it returned a dict of its own.
RuleReturned(perception) ==
    IF check_safety_rules(safety_rules, perception.telemetry) = NoDecision THEN 0
    ELSE LET sorted == SortedRules(safety_rules)
             k == CHOOSE k \in 1..Len(sorted) :
                      /\ ConditionHolds(sorted[k], perception.telemetry)
                      /\ \A j \in 1..(k - 1) : ~ConditionHolds(sorted[j], perception.telemetry)
         IN  CHOOSE i \in 1..Len(safety_rules) :
                 /\ safety_rules[i] = sorted[k]
                 /\ \A j \in 1..(i - 1) : safety_rules[j] # sorted[k]

\* The try/except of decide without the except clause.
decide_result_uncaught(outcome) == outcome

\* Lines 270, 303-305: what decide returns for the outcome of its body.
decide_result(outcome) == IF outcome = Raise THEN fallback_decision ELSE outcome

\* decide up to the call of the sub-agent, or to its return.
decide_begin(perception) ==
    /\ pcD = "idle"
    /\ perception_data' = perception
    /\ sub_agent_advice' = NoAdvice
    /\ LET early == early_checks(perception)
           made == maker_decision(perception)
       IN  IF early # NoDecision
           THEN /\ returned' = decide_result(early)
                /\ dm_decision' = NoDecision
                /\ pcD' = "returned"
                /\ UNCHANGED << decision, decision_rule >>
           ELSE /\ dm_decision' = made
                /\ IF made # Raise /\ config.sub_agent
                   THEN /\ pcD' = "review"
                        /\ decision' = made
                        /\ decision_rule' = RuleReturned(perception)
                        /\ returned' = NoDecision
                   ELSE /\ returned' = decide_result(made)
                        /\ pcD' = "returned"
                        /\ UNCHANGED << decision, decision_rule >>
    /\ UNCHANGED << config, safety_rules, state, current_mission, rules_arg, rules_result,
                    helperVars >>
    /\ UNCHANGED missionVars

\* decide from the answer of the sub-agent on: the merged decision is the
\* dict the decision maker returned, changed in place.
decide_review(advice) ==
    /\ pcD = "review"
    /\ pcD' = "returned"
    /\ sub_agent_advice' = advice
    /\ (advice.shape = "dict" /\ advice.suggest_change /\ advice.suggested_command # ""
          /\ decision_rule # 0 /\ decision_rule \notin SubstitutedRules)
       => Cardinality(SubstitutedRules) < MaxSubstitutions
    /\ decision' = NoDecision
    /\ decision_rule' = 0
    /\ IF advice.shape = "not_dict"
       THEN /\ returned' = decide_result(Raise)
            /\ UNCHANGED safety_rules
       ELSE IF advice.suggest_change
       THEN /\ returned' = decide_result(merge_decisions(decision, advice))
            /\ safety_rules' =
                   IF decision_rule # 0
                   THEN [safety_rules EXCEPT ![decision_rule].action =
                                                 merge_decisions(decision, advice)]
                   ELSE safety_rules
       ELSE /\ returned' = decide_result(decision)
            /\ UNCHANGED safety_rules
    /\ UNCHANGED << config, state, current_mission, perception_data, dm_decision,
                    rules_arg, rules_result, helperVars >>
    /\ UNCHANGED missionVars

\* A direct call of DecisionMaker._check_safety_rules, as the unit tests make.
check_safety_rules_call(telemetry) ==
    /\ pcD = "idle"
    /\ pcD' = "returned"
    /\ rules_arg' = telemetry
    /\ rules_result' = check_safety_rules(safety_rules, telemetry)
    /\ UNCHANGED << config, safety_rules, state, current_mission, perception_data, decision,
                    decision_rule, dm_decision, sub_agent_advice, returned, helperVars >>
    /\ UNCHANGED missionVars

\* The caller of decide or of _check_safety_rules takes the value returned;
\* the locals of the call are gone.
call_return ==
    /\ pcD = "returned"
    /\ pcD' = "idle"
    /\ perception_data' = NoPerception
    /\ sub_agent_advice' = NoAdvice
    /\ dm_decision' = NoDecision
    /\ returned' = NoDecision
    /\ rules_arg' = NoTelemetry
    /\ rules_result' = NoDecision
    /\ obstacles_arg' = << >>
    /\ obstacles_result' = NoDecision
    /\ nav_arg' = << >>
    /\ nav_result' = NoDecision
    /\ UNCHANGED << config, safety_rules, state, current_mission, decision, decision_rule,
                    routeVars, memoryVars >>
    /\ UNCHANGED missionVars

\* DecisionMaker.update_rules, called with one new rule.
UpdateRules(rule) ==
    /\ pcD # "returned"
    /\ ExtraRuleCount < MaxExtraRules
    /\ safety_rules' = update_rules(safety_rules, << rule >>)
    /\ UNCHANGED << config, state, current_mission, decideVars >>
    /\ UNCHANGED missionVars

(***************************************************************************)
(* The decision cycles of an agent with or without a mission.              *)
(***************************************************************************)
NoMissionData == [waypoints_completed |-> << >>, events |-> << >>, data_collected |-> 0]

InitMission ==
    /\ client = "none"
    /\ mission_history = << >>
    /\ pcM = "idle"
    /\ mission = NoMission
    /\ wp_index = 0
    /\ mission_data = NoMissionData
    /\ dispatch_log = << >>
    /\ mission_end = "none"
    /\ estop = FALSE
    /\ dispatch_failed = FALSE
    /\ mission_exc = FALSE
    /\ missions_started = 0
    /\ pcA = "idle"
    /\ act_command = "none"
    /\ act_origin = "none"
    /\ act_priority = "none"
    /\ system_check = "none"
    /\ pcS = "idle"
    /\ shutdown_from = "none"
    /\ shutdown_land = FALSE
    /\ shutdown_end = "none"

\* DroneIntelligentAgent.__init__, line 77: ShortTermMemory(capacity=1000).
DefaultCapacity == 1000

\* ShortTermMemory.__init__
short_term_memory_init(c) ==
    /\ capacity = c
    /\ memory = << >>
    /\ timestamps = << >>
    /\ clock = 0
    /\ added = << >>
    /\ get_all_result = << >>

InitCycle ==
    /\ safety_rules = init_safety_rules
    /\ pcD = "idle"
    /\ perception_data = NoPerception
    /\ decision = NoDecision
    /\ decision_rule = 0
    /\ dm_decision = NoDecision
    /\ sub_agent_advice = NoAdvice
    /\ returned = NoDecision
    /\ rules_arg = NoTelemetry
    /\ rules_result = NoDecision
    /\ obstacles_arg = << >>
    /\ obstacles_result = NoDecision
    /\ nav_arg = << >>
    /\ nav_result = NoDecision
    /\ pcN = "idle"
    /\ nav_pos = Pos(0, 0, 0)
    /\ nav_route = << >>
    /\ nav_last = "none"
    /\ nav_target = 0

InitDecide ==
    /\ InitMission
    /\ InitCycle
    /\ short_term_memory_init(DefaultCapacity)
    /\ config \in [slom : BOOLEAN, sub_agent : BOOLEAN]
    /\ current_mission \in DecideMissions
    /\ state = IF current_mission = NoMission THEN "READY" ELSE "FLYING"

NextDecide ==
    \/ \E perception \in Perceptions : decide_begin(perception)
    \/ \E advice \in Advices : decide_review(advice)
    \/ \E telemetry \in Telemetries : check_safety_rules_call(telemetry)
    \/ call_return
    \/ \E rule \in ExtraRules : UpdateRules(rule)

SpecDecide == InitDecide /\ [][NextDecide]_vars

(***************************************************************************)
(* Claims about the decision cycle, checked under SpecDecide.              *)
(***************************************************************************)
Matching(rules, telemetry) ==
    {i \in 1..Len(rules) : ConditionHolds(rules[i], telemetry)}

IsTopMatch(rules, telemetry, d) ==
    \E i \in Matching(rules, telemetry) :
        /\ d = rules[i].action
        /\ \A j \in Matching(rules, telemetry) : rules[j].priority <= rules[i].priority

NearestObstacleBelow(perception, limit) ==
    /\ HasObstacles(perception)
    /\ \E i \in 1..Len(ObstaclesOf(perception)) :
           /\ ObstaclesOf(perception)[i].distance # Missing
           /\ ObstaclesOf(perception)[i].distance < limit

\* C1: in a cycle that reaches decide_mission, the decision is the action of
\* a matching safety rule whenever one matches, whatever the obstacles and
\* the waypoints (malformed ones included); otherwise it is the obstacle
\* decision whenever an obstacle is closer than 10 m; only otherwise the
\* navigation decision.  Without the sub-agent it is what decide returns.
C1_TierOrder ==
    [][ (pcD = "idle" /\ pcD' # "idle" /\ HasMission /\ dm_decision' # NoDecision)
        => LET p == perception_data'
               d == dm_decision'
           IN  /\ IF Matching(safety_rules, p.telemetry) # {}
                  THEN IsTopMatch(safety_rules, p.telemetry, d)
                  ELSE IF NearestObstacleBelow(p, 10)
                  THEN /\ d.command \in {"LAND", "AVOID"}
                       /\ d.reason \in {"critically close obstacle", "obstacle"}
                  ELSE /\ d.command \in {"raise", "HOVER", "GOTO", "RTL", "WAYPOINT_REACHED"}
                       /\ d.reason \in {"none", "no route", "moving to waypoint",
                                        "mission complete", "waypoint reached"}
               /\ (~config.sub_agent /\ d # Raise) => returned' = d ]_vars

C1_Witness ==
    /\ pcD = "returned"
    /\ current_mission = << MissionParams(MissionOfLen(3), TRUE) >>
    /\ perception_data.shape = "dict"
    /\ perception_data.telemetry.wind_speed = 20
    /\ NearestObstacleBelow(perception_data, 3)
    /\ dm_decision = Decision("LAND", "high", "high wind")
    /\ returned = dm_decision

BeforeWaypoint2(perception) ==
    /\ perception.shape = "dict"
    /\ find_next_waypoint(perception.telemetry.position, MissionOfLen(3)) \in {1, 2}

P7Case ==
    /\ pcD = "returned"
    /\ current_mission = << MissionParams(MissionOfLen(3), TRUE) >>
    /\ BeforeWaypoint2(perception_data)
    /\ perception_data.telemetry.battery = 5

RulesCall == pcD = "returned" /\ rules_arg # NoTelemetry

\* C3: with the built-in rules, _check_safety_rules returns LAND with
\* priority critical for every telemetry whose battery is below 10.
C3_CriticalBattery ==
    (RulesCall /\ safety_rules = init_safety_rules
       /\ rules_arg.battery # Bad /\ rules_arg.battery < 10)
    => (rules_result.command = "LAND" /\ rules_result.priority = "critical")

C3_Witness ==
    /\ RulesCall
    /\ safety_rules = init_safety_rules
    /\ rules_arg.battery = 5
    /\ rules_arg.signal_strength = 10
    /\ rules_arg.wind_speed = 20
    /\ rules_arg.obstacle_distance = 3
    /\ rules_result = Decision("LAND", "critical", "critical battery")

\* C4: _check_safety_rules returns the action of a matching rule of the
\* greatest priority among the matching rules, rules added by update_rules
\* included, and None when no rule matches; with the built-in rules, a
\* telemetry matching low_battery and signal_lost but not critical_battery
\* gives the low_battery action.
C4_TopPriority ==
    RulesCall =>
        /\ IF Matching(safety_rules, rules_arg) = {}
           THEN rules_result = NoDecision
           ELSE IsTopMatch(safety_rules, rules_arg, rules_result)
        /\ (safety_rules = init_safety_rules /\ rules_arg.battery = 15
              /\ rules_arg.signal_strength = 10)
           => rules_result = Decision("RTL", "critical", "low battery")

C4_Witness ==
    /\ RulesCall
    /\ ExtraRuleCount = 1
    /\ safety_rules[Len(safety_rules)].name = "custom_first"
    /\ rules_arg.battery = 15
    /\ rules_arg.signal_strength = 10
    /\ rules_result = Decision("HOVER", "low", "custom rule")

\* The inputs on which a step of the cycle raises.
StepRaises ==
    \/ perception_data.shape = "not_dict"
    \/ /\ perception_data.shape = "dict"
       /\ \/ perception_data.telemetry.battery = Bad
          \/ dm_decision = Raise
          \/ sub_agent_advice.shape = "not_dict"

\* C5: decide never raises, and returns the fallback HOVER with priority
\* medium whenever a step of the cycle raised: the telemetry update, the Slom
\* check, the emergency check, the decision maker or the sub-agent's review.
C5_Fallback ==
    (pcD = "returned" /\ perception_data # NoPerception)
    => /\ returned # Raise
       /\ StepRaises => returned = Decision("HOVER", "medium", "fallback mode")

C5_Witness ==
    /\ pcD = "returned"
    /\ perception_data.shape = "dict"
    /\ perception_data.telemetry.battery = 100
    /\ sub_agent_advice.shape = "not_dict"
    /\ decision = NoDecision
    /\ returned = Decision("HOVER", "medium", "fallback mode")

(***************************************************************************)
(* The life cycle: initialize, act, emergency_stop and the mission task.   *)
(* Every await of a collaborator is a point where the other tasks of the   *)
(* event loop may run; the code between two awaits is one step.            *)
(***************************************************************************)
\* The commands process_command passes to act, its only caller besides the
\* failure handler of the mission.
Commands == {"TAKEOFF", "LAND", "GOTO", "RTL", "HOVER"}
Origins == {"operator", "decision"}
\* The decisions act is called with: process_command passes a command without
\* a priority; the decisions of priority critical that the decision maker
\* produces are LAND (critical_battery, an obstacle closer than 3 m) and RTL
\* (low_battery).
ActCalls ==
    {[command |-> c, priority |-> "none", origin |-> "operator"] : c \in Commands}
    \cup {[command |-> c, priority |-> "critical", origin |-> "decision"] : c \in {"LAND", "RTL"}}
DispatchOutcomes == {"success", "failure", "raise"}

cycleVars == << config, safety_rules, pcD, perception_data, decision, decision_rule,
                dm_decision, sub_agent_advice, returned, rules_arg, rules_result,
                helperVars >>
taskVars == << mission_history, pcM, mission, wp_index, mission_data, dispatch_log,
               mission_end, estop, dispatch_failed, mission_exc, missions_started >>
actVars == << pcA, act_command, act_origin, act_priority >>
shutdownVars == << pcS, shutdown_from, shutdown_land, shutdown_end >>

\* DroneIntelligentAgent.initialize: the client is created and connected, the
\* tools and the sub-agent are initialised, the system check is run and its
\* result dropped; a raise of connect or of a tool leaves the state as it is.
initialize(kind, outcome) ==
    /\ client = "none"
    /\ client' = kind
    /\ state' = IF outcome = "raise" THEN state ELSE "READY"
    /\ system_check' = CASE outcome = "ok" -> "passed"
                          [] outcome = "check_failed" -> "failed"
                          [] OTHER -> system_check
    /\ UNCHANGED << current_mission, cycleVars, taskVars, actVars, shutdownVars >>

\* act, lines 357-361: the state after the command has been sent.
act_state(st, command) ==
    IF command \in {"TAKEOFF", "GOTO", "FOLLOW_PATH"} THEN "FLYING"
    ELSE IF command \in {"LAND", "RTL"} THEN "LANDING"
    ELSE st

\* act up to the await of send_command; without a client nothing is sent and
\* the call runs to its end.
act_begin(call) ==
    /\ pcA = "idle"
    /\ IF client = "none"
       THEN /\ state' = act_state(state, call.command)
            /\ UNCHANGED actVars
       ELSE /\ pcA' = "send"
            /\ act_command' = call.command
            /\ act_origin' = call.origin
            /\ act_priority' = call.priority
            /\ UNCHANGED state
    /\ UNCHANGED << client, current_mission, cycleVars, shutdownVars, system_check, taskVars >>

\* act from the result of send_command on; a raise is caught by act.
act_result(outcome) ==
    /\ pcA = "send"
    /\ state' = IF outcome = "raise" THEN state ELSE act_state(state, act_command)
    /\ pcA' = "idle"
    /\ act_command' = "none"
    /\ act_origin' = "none"
    /\ act_priority' = "none"
    /\ UNCHANGED << client, current_mission, cycleVars, shutdownVars, system_check, taskVars >>

\* DroneIntelligentAgent.emergency_stop
emergency_stop ==
    /\ state' = "EMERGENCY"
    /\ estop' = (estop \/ pcM # "idle")
    /\ UNCHANGED << client, current_mission, cycleVars, shutdownVars, system_check, actVars, mission_history, pcM,
                    mission, wp_index, mission_data, dispatch_log, mission_end,
                    dispatch_failed, mission_exc, missions_started >>

\* run_mission, lines 409-422.
run_mission_begin(n, data_collection) ==
    /\ pcM = "idle"
    /\ missions_started < MaxMissions
    /\ missions_started' = missions_started + 1
    /\ current_mission' = << MissionParams(MissionOfLen(n), data_collection) >>
    /\ mission' = << MissionParams(MissionOfLen(n), data_collection) >>
    /\ state' = "FLYING"
    /\ wp_index' = 1
    /\ mission_data' = NoMissionData
    /\ dispatch_log' = << >>
    /\ mission_end' = "none"
    /\ estop' = FALSE
    /\ dispatch_failed' = FALSE
    /\ mission_exc' = FALSE
    /\ pcM' = "loop"
    /\ UNCHANGED << client, mission_history, cycleVars, shutdownVars, system_check, actVars >>

\* Lines 426-432: the head of the for loop, the emergency check and
\* _goto_waypoint up to its await; without a client _goto_waypoint returns
\* success = False at once.
mission_loop ==
    /\ pcM = "loop"
    /\ IF wp_index > Len(mission[1].waypoints) \/ state = "EMERGENCY"
       THEN /\ pcM' = "complete"
            /\ UNCHANGED << dispatch_log, dispatch_failed >>
       ELSE IF client = "none"
       THEN /\ pcM' = "sleep"
            /\ dispatch_failed' = TRUE
            /\ UNCHANGED dispatch_log
       ELSE /\ pcM' = "goto"
            /\ dispatch_log' = Append(dispatch_log, wp_index)
            /\ UNCHANGED dispatch_failed
    /\ UNCHANGED << state, client, current_mission, cycleVars, shutdownVars, system_check, actVars, mission_history,
                    mission, wp_index, mission_data, mission_end, estop, mission_exc,
                    missions_started >>

\* Lines 434-439 with the first waypoint_reached event left out.
record_waypoint_no_event(data, i) ==
    [data EXCEPT !.waypoints_completed = Append(@, i)]

\* Lines 434-439: the waypoint is recorded as completed, with its event.
record_waypoint(data, i) ==
    [data EXCEPT !.waypoints_completed = Append(@, i), !.events = Append(@, i)]

\* _handle_mission_failure without the reset of line 529.
failure_state_no_reset(st) == st

\* _handle_mission_failure, lines 528-529: the state after the handler, from
\* the state that act(LAND) left.
failure_state(st) == "READY"

\* Lines 432-444: the result of the dispatch; a raise enters the handler of
\* lines 451-453, which calls act(LAND) up to its await of send_command.
goto_result(outcome) ==
    /\ pcM = "goto"
    /\ IF outcome = "success"
       THEN /\ mission_data' = record_waypoint(mission_data, wp_index)
            /\ pcM' = IF mission[1].data_collection THEN "collect" ELSE "sleep"
            /\ UNCHANGED << dispatch_failed, mission_exc, dispatch_log >>
       ELSE IF outcome = "failure"
       THEN /\ dispatch_failed' = TRUE
            /\ pcM' = "sleep"
            /\ UNCHANGED << mission_data, mission_exc, dispatch_log >>
       ELSE /\ mission_exc' = TRUE
            /\ dispatch_log' = Append(dispatch_log, 0)
            /\ pcM' = "fail_land"
            /\ UNCHANGED << mission_data, dispatch_failed >>
    /\ UNCHANGED << state, client, current_mission, cycleVars, shutdownVars, system_check, actVars, mission_history,
                    mission, wp_index, mission_end, estop, missions_started >>

\* Lines 442-444: _collect_waypoint_data, which awaits perceive; perceive
\* catches every exception.
collect_waypoint_data ==
    /\ pcM = "collect"
    /\ mission_data' = [mission_data EXCEPT !.data_collected = @ + 1]
    /\ pcM' = "sleep"
    /\ UNCHANGED << state, client, current_mission, cycleVars, shutdownVars, system_check, actVars, mission_history,
                    mission, wp_index, dispatch_log, mission_end, estop, dispatch_failed,
                    mission_exc, missions_started >>

\* Line 446: asyncio.sleep(0.1), then the next iteration.
mission_sleep ==
    /\ pcM = "sleep"
    /\ wp_index' = wp_index + 1
    /\ pcM' = "loop"
    /\ UNCHANGED << state, client, current_mission, cycleVars, shutdownVars, system_check, actVars, mission_history,
                    mission, mission_data, dispatch_log, mission_end, estop,
                    dispatch_failed, mission_exc, missions_started >>

\* _complete_mission, lines 486-496: the report.
mission_report(m, data) ==
    [status |-> "completed",
     waypoints_completed |-> Len(data.waypoints_completed),
     total_waypoints |-> Len(m.waypoints),
     events |-> data.events,
     data_collected |-> data.data_collected]

\* The end of run_mission: its locals are gone.
MissionEnds(how) ==
    /\ pcM' = "idle"
    /\ mission_end' = how
    /\ mission' = NoMission
    /\ wp_index' = 0
    /\ mission_data' = NoMissionData

\* _complete_mission: the report is written to a file and the sub-agent is
\* notified, either of which may raise into the handler of run_mission; then
\* the mission is cleared and the state reset.
complete_mission(outcome) ==
    /\ pcM = "complete"
    /\ IF outcome = "ok"
       THEN /\ mission_history' = Append(mission_history, mission_report(mission[1], mission_data))
            /\ current_mission' = NoMission
            /\ state' = "READY"
            /\ MissionEnds("completed")
            /\ UNCHANGED << mission_exc, dispatch_log >>
       ELSE /\ mission_exc' = TRUE
            /\ UNCHANGED mission_history
            /\ IF client = "none"
               THEN /\ current_mission' = NoMission
                    /\ state' = failure_state(act_state(state, "LAND"))
                    /\ MissionEnds("failed")
                    /\ UNCHANGED dispatch_log
               ELSE /\ dispatch_log' = Append(dispatch_log, 0)
                    /\ pcM' = "fail_land"
                    /\ UNCHANGED << state, current_mission, mission, wp_index, mission_data,
                                    mission_end >>
    /\ UNCHANGED << client, cycleVars, shutdownVars, system_check, actVars, estop, dispatch_failed, missions_started >>

\* _handle_mission_failure from the result of the LAND dispatch on: act sets
\* the state unless send_command raised, then the handler clears the mission
\* and resets the state.
handle_mission_failure(outcome) ==
    /\ pcM = "fail_land"
    /\ current_mission' = NoMission
    /\ state' = failure_state(IF outcome = "raise" THEN state ELSE act_state(state, "LAND"))
    /\ MissionEnds("failed")
    /\ UNCHANGED << client, cycleVars, shutdownVars, system_check, actVars, mission_history, dispatch_log, estop,
                    dispatch_failed, mission_exc, missions_started >>

Init ==
    /\ InitMission
    /\ InitCycle
    /\ short_term_memory_init(DefaultCapacity)
    /\ config = [slom |-> FALSE, sub_agent |-> FALSE]
    /\ state = "INITIALIZING"
    /\ current_mission = NoMission

Next ==
    \/ \E kind \in {"sim", "real"}, outcome \in {"ok", "raise"} : initialize(kind, outcome)
    \/ \E call \in ActCalls : act_begin(call)
    \/ \E outcome \in DispatchOutcomes : act_result(outcome)
    \/ emergency_stop
    \/ \E n \in 0..MaxWaypoints, dc \in BOOLEAN : run_mission_begin(n, dc)
    \/ mission_loop
    \/ \E outcome \in DispatchOutcomes : goto_result(outcome)
    \/ collect_waypoint_data
    \/ mission_sleep
    \/ \E outcome \in {"ok", "raise"} : complete_mission(outcome)
    \/ \E outcome \in DispatchOutcomes : handle_mission_failure(outcome)

Spec == Init /\ [][Next]_vars

(***************************************************************************)
(* Claims about the life cycle, checked under Spec.                        *)
(***************************************************************************)
\* The transitions that the table of the state machine lists for commands.
Listed(st, command) ==
    \/ st = "READY" /\ command \in {"TAKEOFF", "GOTO", "FOLLOW_PATH"}
    \/ st = "FLYING" /\ command \in {"LAND", "RTL"}

\* A step in which act applies its state update for the command.
ActExecutes(command) ==
    \/ client = "none" /\ \E call \in ActCalls : call.command = command /\ act_begin(call)
    \/ pcA = "send" /\ act_command = command /\ act_result("success")

\* C6 as claimed: a command executed by act in a state for which the table
\* lists no transition leaves the state unchanged.
C6_Original ==
    [][ \A command \in Commands :
           (ActExecutes(command) /\ ~Listed(state, command)) => state' = state ]_vars

\* A step of the mission task after its start: the loop, its abort, the
\* completion and the failure handling with its call of act.
MissionStep == pcM # "idle" /\ pcM' # pcM

\* C7 as claimed: no automatic step (the mission loop, its abort, its
\* completion and its failure handling with the command act executes for
\* it) takes the agent out of EMERGENCY.
C7_Original ==
    [][ (state = "EMERGENCY" /\ MissionStep) => state' = "EMERGENCY" ]_vars

NewGoto ==
    /\ Len(dispatch_log') > Len(dispatch_log)
    /\ dispatch_log'[Len(dispatch_log')] # 0

\* C8 as claimed: once emergency_stop has been called during a mission, the
\* mission loop starts no further GOTO dispatch, under every interleaving
\* with act and the operator's commands.
C8_Original ==
    [][ (estop /\ pcM # "idle") => ~NewGoto ]_vars

\* C9: a mission whose dispatches all succeed, with no emergency stop and no
\* exception, ends with a report of status completed in which
\* waypoints_completed = total_waypoints = N and the events are one
\* waypoint_reached per waypoint in order, with current_mission cleared and
\* the state READY.
C9_Completion ==
    [][ (pcM = "complete" /\ pcM' = "idle" /\ ~estop /\ ~dispatch_failed /\ ~mission_exc')
        => LET N == Len(mission[1].waypoints)
               r == mission_history'[Len(mission_history')]
           IN  /\ Len(mission_history') = Len(mission_history) + 1
               /\ r.status = "completed"
               /\ r.waypoints_completed = N
               /\ r.total_waypoints = N
               /\ r.events = [i \in 1..N |-> i]
               /\ mission_end' = "completed"
               /\ current_mission' = NoMission
               /\ state' = "READY" ]_vars

C9_Witness ==
    /\ pcM = "idle"
    /\ mission_end = "completed"
    /\ ~estop /\ ~dispatch_failed /\ ~mission_exc
    /\ Len(mission_history) = 1
    /\ mission_history[1].total_waypoints = 2
    /\ mission_history[1].waypoints_completed = 2
    /\ mission_history[1].events = << 1, 2 >>
    /\ dispatch_log = << 1, 2 >>
    /\ state = "READY"
    /\ current_mission = NoMission

LandLast(log) == Len(log) > 0 /\ log[Len(log)] = 0

FaultedMissionEnds == pcM # "idle" /\ pcM' = "idle" /\ mission_exc'

\* C10 as claimed: after an exception inside the try of run_mission a LAND
\* command is dispatched, the state ends as READY, the mission is cleared,
\* no later waypoint is dispatched and run_mission does not raise.
C10_Original ==
    [][ FaultedMissionEnds
        => /\ LandLast(dispatch_log')
           /\ state' = "READY"
           /\ current_mission' = NoMission
           /\ mission_end' = "failed" ]_vars

\* C10, amended: after an exception inside the try of run_mission the
\* handler calls act for LAND, which dispatches it when the agent has a
\* vehicle client and sends nothing when it has none; the state ends as
\* READY, the mission is cleared, no later waypoint is dispatched and
\* run_mission does not raise.
C10_FailureHandler ==
    [][ FaultedMissionEnds
        => /\ IF client = "none" THEN dispatch_log' = dispatch_log
              ELSE LandLast(dispatch_log')
           /\ state' = "READY"
           /\ current_mission' = NoMission
           /\ mission_end' = "failed" ]_vars

C10_Witness ==
    /\ pcM = "idle"
    /\ mission_end = "failed"
    /\ mission_exc
    /\ dispatch_log = << 1, 0 >>
    /\ state = "READY"
    /\ current_mission = NoMission

\* A waypoint dispatch of the running mission has reported success = false.
DispatchFailedInMission == pcM # "idle" /\ dispatch_failed

\* C11 as claimed: after a waypoint dispatch of run_mission has reported
\* success = false the loop dispatches no further waypoint and the mission
\* ends through the failure path, as failed and not as completed.
C11_Original ==
    [][ DispatchFailedInMission
        => /\ ~NewGoto
           /\ (pcM' = "idle" => mission_end' = "failed") ]_vars

\* A call of act outside a mission ends with a dispatch that reported
\* success = false: the vehicle client answered so, or there is no client.
ActFailsOutsideMission ==
    /\ pcM = "idle"
    /\ \/ client = "none" /\ \E call \in ActCalls : act_begin(call)
       \/ pcA = "send" /\ act_result("failure")

\* C12 as claimed: when the dispatch made by act outside a mission reports
\* success = false, the state after act equals the state before it, for
\* every command and every starting state.
C12_Original ==
    [][ ActFailsOutsideMission => state' = state ]_vars

\* act has sent the command of a decision whose priority is critical and the
\* vehicle has accepted it.
ActExecutesCritical ==
    pcA = "send" /\ act_priority = "critical" /\ act_result("success")

\* C13 as claimed: from any state, executing a safety decision whose
\* priority is critical moves the state to EMERGENCY, as emergency_stop does.
C13_Original ==
    [][ ActExecutesCritical => state' = "EMERGENCY" ]_vars

(***************************************************************************)
(* Further claims about the decision maker, checked under SpecDecide.      *)
(***************************************************************************)
\* The rules whose predicate raises on the telemetry.
Raising(rules, telemetry) ==
    {i \in 1..Len(rules) : ConditionRaises(rules[i], telemetry)}

\* The rules that are true on the telemetry, among those that do not raise.
TrueRules(rules, telemetry) ==
    {i \in 1..Len(rules) :
        /\ i \notin Raising(rules, telemetry)
        /\ CASE rules[i].kind = "lt" -> TelemetryGet(telemetry, rules[i].field) < rules[i].thr
             [] rules[i].kind = "gt" -> TelemetryGet(telemetry, rules[i].field) > rules[i].thr
             [] OTHER -> rules[i].kind = "always"}

\* C14: a call of _check_safety_rules in which the predicate of some rule
\* raises does not raise and does not change the rules; it returns the
\* action of the rule of greatest priority among the other rules that are
\* true, of higher and of lower priority than the faulty one alike, and None
\* when none of them is true.  The faulty rule stays in the list and is
\* evaluated by the next call.
C14_SkipRaising ==
    [][ (pcD = "idle" /\ rules_arg' # NoTelemetry
           /\ Raising(safety_rules, rules_arg') # {})
        => LET true == TrueRules(safety_rules, rules_arg')
           IN  /\ rules_result' # Raise
               /\ safety_rules' = safety_rules
               /\ IF true = {} THEN rules_result' = NoDecision
                  ELSE \E i \in true :
                          /\ rules_result' = safety_rules[i].action
                          /\ \A j \in true : safety_rules[j].priority <= safety_rules[i].priority ]_vars

\* A call in which high_wind raises, the rules above it are false and a rule
\* below it gives the decision.
C14_Witness ==
    /\ RulesCall
    /\ rules_arg.wind_speed = Bad
    /\ rules_arg.battery = 22
    /\ rules_arg.signal_strength = 100
    /\ rules_arg.obstacle_distance = 100
    /\ Len(safety_rules) = 6
    /\ safety_rules[6].name = "custom_last"
    /\ rules_result = Decision("RTL", "medium", "custom rule")

\* C15 as claimed: after any sequence of decide calls every rule still
\* carries its configured command, reason and priority: the built-in rules
\* are as _init_safety_rules made them and the others as update_rules
\* received them.
C15_Original ==
    /\ \A i \in 1..Len(init_safety_rules) : safety_rules[i] = init_safety_rules[i]
    /\ \A i \in (Len(init_safety_rules) + 1)..Len(safety_rules) : safety_rules[i] \in ExtraRules

\* The cycle has chosen a decision of priority critical and the sub-agent
\* answers its review.
CriticalReview == pcD = "review" /\ decision.priority = "critical" /\ pcD' = "returned"

\* C16 as claimed: when the cycle has chosen a decision of priority
\* critical, decide returns the command of that decision, whatever the
\* answer of the advisory hook.
C16_Original ==
    [][ (CriticalReview /\ sub_agent_advice'.shape = "dict")
        => returned'.command = decision.command ]_vars

(***************************************************************************)
(* Direct calls of _handle_obstacles and _navigate_mission, the helpers of *)
(* the decision maker, on lists of obstacles and of waypoints.             *)
(***************************************************************************)
\* Obstacles at the limits 3 and 10 and on both sides of them, at the
\* agent's own position, above it, off the horizontal plane, and without a
\* distance field.
CallObstacles ==
    { Obstacle(2, 2, 0, 0), Obstacle(3, 3, 0, 0), Obstacle(7, 0, 0, 0),
      Obstacle(7, 2, 3, 6), Obstacle(9, 3, 4, 0), Obstacle(5, 0, 0, 5),
      Obstacle(10, 10, 0, 0), Obstacle(50, 50, 0, 0),
      Obstacle(Missing, 1, 0, 0), Obstacle(Missing, 3, 4, 0) }
CallObstacleLists == UNION {[1..n -> CallObstacles] : n \in 0..MaxObstacles}

\* Waypoints at 2.0 from the origin exactly, nearer and farther, with and
\* without a speed.
CallWaypoints ==
    { Waypoint(0, 0, 2, Missing), Waypoint(1, 1, 1, Missing), Waypoint(2, 1, 0, 3),
      Waypoint(0, 0, 3, Missing) }
CallRoutes == UNION {[1..n -> CallWaypoints] : n \in 0..MaxRoute}
CallPositions == {Pos(0, 0, 0), Pos(0, 0, 1)}

handle_obstacles_call(obstacles) ==
    /\ pcD = "idle"
    /\ pcD' = "returned"
    /\ obstacles_arg' = << obstacles >>
    /\ obstacles_result' = handle_obstacles(obstacles)
    /\ UNCHANGED << config, safety_rules, state, current_mission, perception_data, decision,
                    decision_rule, dm_decision, sub_agent_advice, returned, rules_arg,
                    rules_result, nav_arg, nav_result, routeVars, memoryVars >>
    /\ UNCHANGED missionVars

navigate_mission_call(current_pos, waypoints) ==
    /\ pcD = "idle"
    /\ pcD' = "returned"
    /\ nav_arg' = << [pos |-> current_pos, waypoints |-> waypoints] >>
    /\ nav_result' = navigate_mission(current_pos, waypoints)
    /\ UNCHANGED << config, safety_rules, state, current_mission, perception_data, decision,
                    decision_rule, dm_decision, sub_agent_advice, returned, rules_arg,
                    rules_result, obstacles_arg, obstacles_result, routeVars, memoryVars >>
    /\ UNCHANGED missionVars

InitMaker ==
    /\ InitMission
    /\ InitCycle
    /\ short_term_memory_init(DefaultCapacity)
    /\ config = [slom |-> FALSE, sub_agent |-> FALSE]
    /\ state = "READY"
    /\ current_mission = NoMission

\* Telemetry as the unit tests pass it to _check_safety_rules: a battery
\* level at the thresholds 10 and 20 and on both sides of them, or nothing.
CallTelemetries ==
    [battery : {9, 10, 11, 19, 20, Missing}, signal_strength : {Missing},
     wind_speed : {Missing}, obstacle_distance : {Missing}, temperature : {Missing},
     position : {Missing}]

NextMaker ==
    \/ \E telemetry \in CallTelemetries : check_safety_rules_call(telemetry)
    \/ \E obstacles \in CallObstacleLists : handle_obstacles_call(obstacles)
    \/ \E current_pos \in CallPositions, waypoints \in CallRoutes :
           navigate_mission_call(current_pos, waypoints)
    \/ call_return

SpecMaker == InitMaker /\ [][NextMaker]_vars

(***************************************************************************)
(* Claims about the helpers, checked under SpecMaker.                      *)
(***************************************************************************)
ObstaclesCall == pcD = "returned" /\ obstacles_arg # << >>

AllGiven(list) == \A i \in 1..Len(list) : list[i].distance # Missing

\* The least distance field of a non-empty list whose obstacles all have one.
LeastDistance(list) ==
    CHOOSE d \in {list[i].distance : i \in 1..Len(list)} :
        \A i \in 1..Len(list) : d <= list[i].distance

\* C17: for a list whose obstacles carry a distance, _handle_obstacles
\* returns LAND with priority critical when the least distance d is below 3,
\* AVOID with priority high and params.distance = 15 when 3 <= d < 10, and
\* None when d >= 10 or the list is empty; d = 3 gives AVOID and d = 10 None.
C17_ObstacleTiers ==
    (ObstaclesCall /\ AllGiven(obstacles_arg[1]))
    => LET list == obstacles_arg[1]
           r == obstacles_result
       IN  IF list = << >> THEN r = NoDecision
           ELSE LET d == LeastDistance(list)
                IN  IF d < 3 THEN r.command = "LAND" /\ r.priority = "critical"
                    ELSE IF d < 10
                    THEN /\ r.command = "AVOID"
                         /\ r.priority = "high"
                         /\ r.params.distance = 15
                    ELSE r = NoDecision

\* The nearest obstacle is at 3 exactly, behind one at 10 exactly.
C17_Witness ==
    /\ ObstaclesCall
    /\ obstacles_arg[1] = << Obstacle(10, 10, 0, 0), Obstacle(3, 3, 0, 0) >>
    /\ obstacles_result.command = "AVOID"
    /\ obstacles_result.params.distance = 15

\* C18 as claimed: whenever _handle_obstacles answers AVOID for one obstacle
\* at (x, y, z), params.direction is (-x, -y, -z) / norm, of length 1, when
\* the norm is not 0, and (1, 0, 0) when it is 0.
C18_Original ==
    (ObstaclesCall /\ Len(obstacles_arg[1]) = 1 /\ obstacles_result.command = "AVOID")
    => LET o == obstacles_arg[1][1]
           dir == obstacles_result.params.direction
       IN  IF o.x = 0 /\ o.y = 0 /\ o.z = 0
           THEN dir.nx = 1 /\ dir.ny = 0 /\ dir.nz = 0 /\ dir.den2 = 1
           ELSE /\ dir.nx = 0 - o.x /\ dir.ny = 0 - o.y /\ dir.nz = 0 - o.z
                /\ dir.nx * dir.nx + dir.ny * dir.ny + dir.nz * dir.nz = dir.den2

\* C19 as claimed: one obstacle given by its coordinates only is tiered by
\* its Euclidean distance to the agent: LAND with priority critical below
\* 3 m, AVOID from 3 m to below 10 m.
C19_Original ==
    (ObstaclesCall /\ Len(obstacles_arg[1]) = 1 /\ obstacles_arg[1][1].distance = Missing)
    => LET o == obstacles_arg[1][1]
           d2 == o.x * o.x + o.y * o.y + o.z * o.z
       IN  /\ d2 < 9 => (obstacles_result.command = "LAND"
                           /\ obstacles_result.priority = "critical")
           /\ (9 <= d2 /\ d2 < 100) => obstacles_result.command = "AVOID"

NavCall == pcD = "returned" /\ nav_arg # << >>

\* The waypoints of the route that are farther than 2.0 from the position.
Unreached(current_pos, waypoints) ==
    {i \in 1..Len(waypoints) :
        calculate_distance_sq(current_pos, waypoints[i]) > ArrivalRadiusSq}

\* C20: _navigate_mission returns HOVER with priority low for an empty list;
\* RTL with priority medium when every waypoint is within 2.0 of the
\* position, 2.0 itself included; otherwise GOTO with priority medium and
\* the x, y, z and speed (5 when it has none) of the first waypoint in list
\* order that is farther than 2.0.
C20_Navigate ==
    NavCall
    => LET wps == nav_arg[1].waypoints
           far == Unreached(nav_arg[1].pos, wps)
           r == nav_result
       IN  IF wps = << >> THEN r.command = "HOVER" /\ r.priority = "low"
           ELSE IF far = {} THEN r.command = "RTL" /\ r.priority = "medium"
           ELSE LET t == CHOOSE i \in far : \A j \in far : i <= j
                IN  /\ r.command = "GOTO"
                    /\ r.priority = "medium"
                    /\ r.params.x = wps[t].x /\ r.params.y = wps[t].y /\ r.params.z = wps[t].z
                    /\ r.params.speed = IF wps[t].speed = Missing THEN 5 ELSE wps[t].speed

\* The first waypoint is at 2.0 exactly and is passed over for the next one.
C20_Witness ==
    /\ NavCall
    /\ nav_arg[1].pos = Pos(0, 0, 0)
    /\ nav_arg[1].waypoints = << Waypoint(0, 0, 2, Missing), Waypoint(0, 0, 3, Missing) >>
    /\ nav_result.command = "GOTO"
    /\ nav_result.params.z = 3
    /\ nav_result.params.speed = 5

(***************************************************************************)
(* shutdown and _safe_landing, interleaved with initialize, act and        *)
(* emergency_stop at their awaits.                                         *)
(***************************************************************************)
\* shutdown without its test of the state: _safe_landing is always called.
safe_landing_always(st) == TRUE

\* shutdown: if self.state == AgentState.FLYING
safe_landing_needed(st) == st = "FLYING"

\* shutdown up to its first await: in FLYING, _safe_landing calls act with
\* LAND, which sends it when there is a client; without one act and
\* _safe_landing run to their end and leave READY.
shutdown_begin ==
    /\ pcS = "idle"
    /\ shutdown_from' = state
    /\ shutdown_end' = "none"
    /\ IF safe_landing_needed(state)
       THEN IF client = "none"
            THEN /\ state' = "READY"
                 /\ shutdown_land' = FALSE
                 /\ pcS' = "closing"
            ELSE /\ shutdown_land' = TRUE
                 /\ pcS' = "land"
                 /\ UNCHANGED state
       ELSE /\ shutdown_land' = FALSE
            /\ pcS' = "closing"
            /\ UNCHANGED state
    /\ UNCHANGED << client, current_mission, cycleVars, taskVars, actVars, system_check >>

\* _safe_landing from the result of the LAND dispatch on: act sets LANDING
\* unless send_command raised, then _safe_landing sets READY.
safe_landing(outcome) ==
    /\ pcS = "land"
    /\ state' = "READY"
    /\ pcS' = "closing"
    /\ UNCHANGED << client, current_mission, cycleVars, taskVars, actVars, system_check,
                    shutdown_from, shutdown_land, shutdown_end >>

\* The rest of shutdown: the state is saved, the tools, the sub-agent and
\* the client are closed, any of which may raise out of shutdown; then the
\* state is set.
shutdown_close(outcome) ==
    /\ pcS = "closing"
    /\ pcS' = "idle"
    /\ IF outcome = "ok"
       THEN state' = "SHUTDOWN" /\ shutdown_end' = "returned"
       ELSE shutdown_end' = "raised" /\ UNCHANGED state
    /\ UNCHANGED << client, current_mission, cycleVars, taskVars, actVars, system_check,
                    shutdown_from, shutdown_land >>

NextLife ==
    \/ \E kind \in {"sim", "real"}, outcome \in {"ok", "check_failed", "raise"} :
           initialize(kind, outcome)
    \/ \E call \in ActCalls : act_begin(call)
    \/ \E outcome \in DispatchOutcomes : act_result(outcome)
    \/ emergency_stop
    \/ shutdown_begin
    \/ \E outcome \in DispatchOutcomes : safe_landing(outcome)
    \/ \E outcome \in {"ok", "raise"} : shutdown_close(outcome)

SpecLife == Init /\ [][NextLife]_vars

AwaitedSteps ==
    \/ \E outcome \in DispatchOutcomes : act_result(outcome)
    \/ \E outcome \in DispatchOutcomes : safe_landing(outcome)
    \/ \E outcome \in {"ok", "raise"} : shutdown_close(outcome)

SpecLifeFair == SpecLife /\ WF_vars(AwaitedSteps)

\* C22 as claimed: once a LAND or RTL command has left the agent in LANDING,
\* the agent eventually returns to READY, with no further operator command
\* or mission.
C22_Original == (state = "LANDING") ~> (state = "READY")

\* C23 as claimed: initialize moves the agent to READY only when the system
\* checks pass; a call whose system check fails does not leave the agent
\* READY.
C23_Original ==
    [][ (\E kind \in {"sim", "real"} : initialize(kind, "check_failed"))
            => state' # "READY" ]_vars

\* C24 as claimed: whenever run_mission has ended through a fault, a record
\* of the mission with status failed can be observed; run_mission returns
\* nothing, so the record would have to be in mission_history.
C24_Original ==
    (pcM = "idle" /\ mission_end = "failed")
        => \E i \in DOMAIN mission_history : mission_history[i].status = "failed"

\* C29 as claimed: every report recorded with status completed counts as
\* many completed waypoints as the mission has waypoints.
C29_Original ==
    \A i \in DOMAIN mission_history :
        mission_history[i].status = "completed"
            => mission_history[i].waypoints_completed = mission_history[i].total_waypoints

\* A direct call of _check_safety_rules on the built-in rules has returned.
BuiltInRulesCall == pcD = "returned" /\ rules_arg # NoTelemetry /\ safety_rules = init_safety_rules

\* C26 as claimed: with the built-in rules, _check_safety_rules on telemetry
\* whose battery is exactly 10 returns a decision, and its command is LAND.
C26_Original ==
    (BuiltInRulesCall /\ rules_arg.battery = 10)
        => (rules_result # NoDecision /\ rules_result.command = "LAND")

\* C30: no call of decide_mission returns WAYPOINT_REACHED; when no safety
\* rule matches and no obstacle is closer than 10 m, the call raises on a
\* malformed waypoint or returns HOVER, GOTO or RTL, and a GOTO is never
\* aimed at a waypoint within 2.0 of the position.
C30_NoArrival ==
    [][ (pcD = "idle" /\ pcD' # "idle" /\ HasMission /\ dm_decision' # NoDecision)
        => LET p == perception_data'
               d == dm_decision'
           IN  /\ d.command # "WAYPOINT_REACHED"
               /\ (Matching(safety_rules, p.telemetry) = {} /\ ~NearestObstacleBelow(p, 10))
                      => /\ d.command \in {"raise", "HOVER", "GOTO", "RTL"}
                         /\ d.command = "GOTO"
                                => calculate_distance_sq(p.telemetry.position,
                                                         Pos(d.params.x, d.params.y, d.params.z))
                                       > ArrivalRadiusSq ]_vars

\* The agent is at the first waypoint of its mission and is sent to the
\* second.
C30_Witness ==
    /\ pcD = "returned"
    /\ current_mission = << MissionParams(MissionOfLen(3), TRUE) >>
    /\ perception_data.shape = "dict"
    /\ perception_data.telemetry.position = Pos(10, 0, 0)
    /\ dm_decision.command = "GOTO"
    /\ dm_decision.params.x = 20

(***************************************************************************)
(* ShortTermMemory: two deques of the same maximal length, written by add  *)
(* and clear and read by get_all.                                          *)
(***************************************************************************)
MaxCapacity == 2
MaxAdds == 4

Capacities == 0..MaxCapacity
Records == {"a", "b"}

\* The variables of the agent apart from its short-term memory and from the
\* route loop.
agentVars == << config, safety_rules, state, current_mission, pcD, perception_data, decision,
                decision_rule, dm_decision, sub_agent_advice, returned, rules_arg,
                rules_result, obstacles_arg, obstacles_result, nav_arg, nav_result,
                missionVars >>

\* A deque that refuses a new element when it is full.
deque_append_keep_oldest(d, maxlen, x) ==
    IF Len(d) >= maxlen THEN d ELSE Append(d, x)

\* deque(maxlen = capacity).append: a full deque drops its leftmost element.
deque_append(d, maxlen, x) ==
    IF maxlen = 0 THEN d
    ELSE IF Len(d) = maxlen THEN Append(Tail(d), x)
    ELSE Append(d, x)

\* ShortTermMemory.add
add(data) ==
    /\ clock < MaxAdds
    /\ memory' = deque_append(memory, capacity, data)
    /\ timestamps' = deque_append(timestamps, capacity, clock)
    /\ clock' = clock + 1
    /\ added' = Append(added, data)
    /\ get_all_result' = << >>
    /\ UNCHANGED << capacity, agentVars, routeVars >>

\* ShortTermMemory.clear
clear ==
    /\ memory' = << >>
    /\ timestamps' = << >>
    /\ added' = << >>
    /\ get_all_result' = << >>
    /\ UNCHANGED << capacity, clock, agentVars, routeVars >>

\* ShortTermMemory.get_all
get_all ==
    /\ get_all_result' = << memory >>
    /\ UNCHANGED << capacity, memory, timestamps, clock, added, agentVars, routeVars >>

InitMemory ==
    /\ InitMission
    /\ InitCycle
    /\ config = [slom |-> FALSE, sub_agent |-> FALSE]
    /\ state = "INITIALIZING"
    /\ current_mission = NoMission
    /\ \E c \in Capacities : short_term_memory_init(c)

NextMemory ==
    \/ \E data \in Records : add(data)
    \/ clear
    \/ get_all

SpecMemory == InitMemory /\ [][NextMemory]_vars

\* The last n elements of a list, all of them when it has fewer.
MostRecent(list, n) ==
    IF Len(list) <= n THEN list ELSE SubSeq(list, Len(list) - n + 1, Len(list))

\* C27: get_all returns at most capacity records, the most recently added
\* ones since the last clear in the order of their insertion, and the
\* timestamp deque is always as long as the record deque.
C27_MostRecent ==
    /\ Len(timestamps) = Len(memory)
    /\ get_all_result # << >>
           => /\ Len(get_all_result[1]) <= capacity
              /\ get_all_result[1] = MostRecent(added, capacity)

\* Three records were added to a memory of capacity 2 after a clear, and
\* get_all returns the last two.
C27_Witness ==
    /\ capacity = 2
    /\ clock = 4
    /\ added = << "a", "b", "a" >>
    /\ get_all_result = << << "b", "a" >> >>

(***************************************************************************)
(* A mission flown by the navigator alone: a loop asks _navigate_mission   *)
(* for a decision, and the agent is at the target of a GOTO when the loop  *)
(* asks again.  The loop ends when RTL is returned.                        *)
(***************************************************************************)
\* Waypoints 5 m apart on the x axis, at the altitude of the start.
RouteWaypoints == { Waypoint(5 * i, 0, 0, Missing) : i \in 0..MaxRoute }

\* consecutive waypoints of the route are more than 2.0 apart
SpacedOut(waypoints) ==
    \A i \in 1..(Len(waypoints) - 1) :
        calculate_distance_sq(waypoints[i], waypoints[i + 1]) > ArrivalRadiusSq

Routes == { w \in UNION {[1..n -> RouteWaypoints] : n \in 0..MaxRoute} : SpacedOut(w) }
\* The start positions are more than 2.0 away from every waypoint.
StartPositions == { Pos(0, 3, 0), Pos(2, 3, 0) }

navigator_start(current_pos, waypoints) ==
    /\ pcN = "idle"
    /\ pcN' = "running"
    /\ nav_pos' = current_pos
    /\ nav_route' = waypoints
    /\ nav_last' = "none"
    /\ nav_target' = 0
    /\ UNCHANGED << agentVars, memoryVars >>

\* One cycle: the decision of _navigate_mission for the position, and the
\* move to the target of its GOTO.
navigator_cycle ==
    /\ pcN = "running"
    /\ LET d == navigate_mission(nav_pos, nav_route)
       IN  /\ nav_last' = d.command
           /\ nav_pos' = IF d.command = "GOTO"
                         THEN Pos(d.params.x, d.params.y, d.params.z)
                         ELSE nav_pos
           /\ nav_target' = IF d.command = "GOTO"
                            THEN find_next_waypoint(nav_pos, nav_route)
                            ELSE nav_target
           /\ pcN' = IF d.command = "RTL" THEN "done" ELSE "running"
    /\ UNCHANGED << nav_route, agentVars, memoryVars >>

\* The loop has ended and its mission is forgotten.
navigator_end ==
    /\ pcN = "done"
    /\ pcN' = "idle"
    /\ nav_pos' = Pos(0, 0, 0)
    /\ nav_route' = << >>
    /\ nav_last' = "none"
    /\ nav_target' = 0
    /\ UNCHANGED << agentVars, memoryVars >>

InitNavigator ==
    /\ InitMission
    /\ InitCycle
    /\ short_term_memory_init(DefaultCapacity)
    /\ config = [slom |-> FALSE, sub_agent |-> FALSE]
    /\ state = "FLYING"
    /\ current_mission = NoMission

NextNavigator ==
    \/ \E current_pos \in StartPositions, waypoints \in Routes :
           navigator_start(current_pos, waypoints)
    \/ navigator_cycle
    \/ navigator_end

\* The loop keeps asking for the next decision while its mission runs.
SpecNavigator == InitNavigator /\ [][NextNavigator]_vars /\ WF_vars(navigator_cycle)

\* C28 as claimed: over a route whose consecutive waypoints are more than
\* 2 m apart, the navigator targets the waypoints in list order, each
\* exactly once, and eventually returns RTL.
C28_Original ==
    /\ [][ (pcN = "running" /\ nav_last' = "GOTO" /\ nav_route # << >>)
               => nav_target' = nav_target + 1 ]_vars
    /\ (pcN = "running" /\ nav_route # << >>) ~> (nav_last = "RTL")

(***************************************************************************)
(* decide on positions at the limits of the geofence of the Slom tool and  *)
(* on both sides of them, with a healthy battery and signal.               *)
(***************************************************************************)
GeofencePositions ==
    { Pos(0, 0, 0), Pos(500, 0, 0), Pos(501, 0, 0), Pos(300, 400, 120), Pos(300, 400, 121),
      Pos(0, 0, 130), Pos(400, 400, 0), Pos(501, 0, 130) }

GeofencePerceptions ==
    [shape : {"dict"},
     telemetry : [battery : {100}, signal_strength : {100}, wind_speed : {0},
                  obstacle_distance : {100}, temperature : {Missing},
                  position : GeofencePositions],
     obstacles : ObstacleLists]

NextGeofence ==
    \/ \E perception \in GeofencePerceptions : decide_begin(perception)
    \/ \E advice \in Advices : decide_review(advice)
    \/ call_return

SpecGeofence == InitDecide /\ [][NextGeofence]_vars

\* the planar distance of the position from the centre exceeds the radius
OutsideRadius(position) == position.x * position.x + position.y * position.y > 500 * 500

\* C25 as claimed: with the Slom tool and its geofence enabled and no
\* battery, signal or obstacle emergency, decide returns RTL for a position
\* outside the radius, DESCEND with target altitude 110 for a position
\* inside the radius and above 120, and no geofence decision for any other
\* position, the radius and the maximal altitude themselves included.
C25_Original ==
    (pcD = "returned" /\ perception_data.shape = "dict" /\ config.slom
        /\ perception_data.telemetry.battery = 100
        /\ perception_data.telemetry.signal_strength = 100
        /\ perception_data.telemetry.obstacle_distance = 100)
    => LET position == perception_data.telemetry.position
       IN  IF OutsideRadius(position) THEN returned.command = "RTL"
           ELSE IF position.z > 120
           THEN /\ returned.command = "DESCEND"
                /\ "params" \in DOMAIN returned
                /\ returned.params.altitude = 110
           ELSE returned.reason # "slom geofence_breach"

====
